---- MODULE Spec2Model ----
(***************************************************************************)
(* Model of alert_watcher/watcher.py: the LogWatcher class.  One watcher   *)
(* object, driven by one sequential caller (tail_log), is the state; the   *)
(* actions are its public methods process_log_line and send_slack_alert.  *)
(***************************************************************************)
EXTENDS Integers, Sequences, FiniteSets, TLC

\* ------------------------------------------------------------------ bounds
\* Largest WINDOW_SIZE the model configures (window_size ranges over 1..MaxWindow).
MaxWindow == 2
\* Number of lines fed to process_log_line in one run of the model.
MaxLines == 3
\* Largest reading of time.time(), in seconds.
MaxTime == 2
\* Largest ALERT_COOLDOWN_SEC the model configures.
MaxCooldown == 1
\* Longest chain of integers in an upstream_status field.
MaxChain == 3

\* ----------------------------------------------------------------- strings
\* A Python str is modelled as a sequence of one-character strings.
Digits == {"0", "1", "2", "3", "4", "5", "6", "7", "8", "9"}

DigitVal(c) ==
    CASE c = "0" -> 0 [] c = "1" -> 1 [] c = "2" -> 2 [] c = "3" -> 3
      [] c = "4" -> 4 [] c = "5" -> 5 [] c = "6" -> 6 [] c = "7" -> 7
      [] c = "8" -> 8 [] c = "9" -> 9

\* str.isdigit(): non-empty and every character a digit.
IsDigit(s) == Len(s) > 0 /\ \A i \in 1..Len(s) : s[i] \in Digits

\* int(s) for a digit string.
RECURSIVE Int_(_)
Int_(s) ==
    IF Len(s) = 0 THEN 0
    ELSE 10 * Int_(SubSeq(s, 1, Len(s) - 1)) + DigitVal(s[Len(s)])

\* str.lstrip() / str.rstrip() / str.strip() over the whitespace character " ".
RECURSIVE LStrip(_)
LStrip(s) == IF Len(s) > 0 /\ s[1] = " " THEN LStrip(Tail(s)) ELSE s

RECURSIVE RStrip(_)
RStrip(s) ==
    IF Len(s) > 0 /\ s[Len(s)] = " " THEN RStrip(SubSeq(s, 1, Len(s) - 1)) ELSE s

Strip(s) == LStrip(RStrip(s))

\* str.split(','): the pieces between commas, empty pieces kept.
RECURSIVE SplitFrom(_, _, _)
SplitFrom(s, i, piece) ==
    IF i > Len(s) THEN <<piece>>
    ELSE IF s[i] = "," THEN <<piece>> \o SplitFrom(s, i + 1, <<>>)
    ELSE SplitFrom(s, i + 1, Append(piece, s[i]))

Split(s) == SplitFrom(s, 1, <<>>)

\* [int(s.strip()) for s in raw.split(',') if s.strip().isdigit()]
RECURSIVE IntsOf(_)
IntsOf(pieces) ==
    IF Len(pieces) = 0 THEN <<>>
    ELSE (IF IsDigit(Strip(Head(pieces))) THEN <<Int_(Strip(Head(pieces)))>> ELSE <<>>)
         \o IntsOf(Tail(pieces))

\* Mutant: a field without a status is read as the status 0.
ParseStatuses_ZeroDefault(upstream_status_raw) ==
    IF Len(IntsOf(Split(upstream_status_raw))) = 0 THEN <<0>>
    ELSE IntsOf(Split(upstream_status_raw))

ParseStatuses(upstream_status_raw) == IntsOf(Split(upstream_status_raw))

\* Mutant: the first status of the chain.
FinalStatus_First(statuses) == statuses[1]

\* statuses[-1]
FinalStatus(statuses) == statuses[Len(statuses)]

\* ------------------------------------------------------------------ floats
\* Python floats are IEEE-754 doubles (53 significant bits, round to nearest,
\* ties to even).  A natural number is a little-endian sequence of NumLimbs
\* limbs of LimbBits bits; a double >= 0 is [m, e] with m a natural of at most
\* MantBits bits (or exactly 2^MantBits) and value m * 2^e.
MantBits == 53
LimbBits == 15
NumLimbs == 5

RECURSIVE Pow2(_)
Pow2(k) == IF k = 0 THEN 1 ELSE 2 * Pow2(k - 1)

Base == Pow2(LimbBits)

Limb(a, i) == IF i \in 1..Len(a) THEN a[i] ELSE 0

\* Bit i (0 = least significant) of the natural a.
Bit(a, i) == (Limb(a, (i \div LimbBits) + 1) \div Pow2(i % LimbBits)) % 2

BitLen(a) ==
    LET S == {i \in 0..(NumLimbs * LimbBits - 1) : Bit(a, i) = 1}
    IN  IF S = {} THEN 0 ELSE 1 + CHOOSE i \in S : \A j \in S : j <= i

\* a * k + carry for a small k.
RECURSIVE MulFrom(_, _, _, _)
MulFrom(a, k, i, carry) ==
    IF i > Len(a) THEN <<>>
    ELSE <<(a[i] * k + carry) % Base>> \o MulFrom(a, k, i + 1, (a[i] * k + carry) \div Base)

MulSmall(a, k) == MulFrom(a, k, 1, 0)

Inc(a) == MulFrom(a, 1, 1, 1)

\* a \div 2^s.
ShiftRight(a, s) ==
    [j \in 1..NumLimbs |->
        LET lo == s + LimbBits * (j - 1)
            q  == lo \div LimbBits
            r  == lo % LimbBits
        IN  (Limb(a, q + 1) \div Pow2(r)) + (Limb(a, q + 2) % Pow2(r)) * Pow2(LimbBits - r)]

\* Some bit of a below bit s is set (a is no multiple of 2^s).
LowBits(a, s) == \E i \in 0..(s - 1) : Bit(a, i) = 1

\* Round the natural a * 2^e (plus a nonzero tail below it when `sticky`) to a
\* double: round to nearest, ties to even.
RoundToDouble(a, e, sticky) ==
    LET L == BitLen(a)
        s == L - MantBits
    IN  IF s <= 0 THEN [m |-> a, e |-> e]
        ELSE LET keep == ShiftRight(a, s)
                 up   == Bit(a, s - 1) = 1
                         /\ (sticky \/ LowBits(a, s - 1) \/ Bit(keep, 0) = 1)
             IN  [m |-> IF up THEN Inc(keep) ELSE keep, e |-> e + s]

RECURSIVE NormShift(_, _)
NormShift(c, n) == IF c >= n THEN 0 ELSE 1 + NormShift(2 * c, n)

\* c / n (int / int, true division) for 0 <= c <= n, 0 < n < Base: the
\* correctly rounded quotient, by long division of c * 2^k (k the shift that
\* makes the quotient's leading bit 1) to MantBits + 1 quotient bits.
FloatDiv(c, n) ==
    IF c = 0 THEN [m |-> [j \in 1..NumLimbs |-> 0], e |-> 0]
    ELSE LET k  == NormShift(c, n)
             r0 == c * Pow2(k) - n
             t0 == MantBits - 3 * LimbBits
             d0 == (r0 * Pow2(t0)) \div n
             r1 == (r0 * Pow2(t0)) % n
             d1 == (r1 * Base) \div n
             r2 == (r1 * Base) % n
             d2 == (r2 * Base) \div n
             r3 == (r2 * Base) % n
             d3 == (r3 * Base) \div n
             r4 == (r3 * Base) % n
         IN  RoundToDouble(<<d3, d2, d1, Pow2(t0) + d0, 0>>, 0 - k - MantBits, r4 # 0)

\* x * 100 for a double x: the correctly rounded product.
FloatMul100(x) == RoundToDouble(MulSmall(x.m, 100), x.e, FALSE)

\* x > t for a double x = m * 2^e with e <= 0 and the double t of a natural
\* number t < Base * Base.
FloatGreaterNat(x, t) ==
    LET ip == ShiftRight(x.m, 0 - x.e)
        iv == ip[1] + Base * ip[2]
    IN  iv > t \/ (iv = t /\ LowBits(x.m, 0 - x.e))

\* ------------------------------------------------------------------ inputs
S200 == <<"2", "0", "0">>
S500 == <<"5", "0", "0">>
S502 == <<"5", "0", "2">>

Numerals == {S200, S500}

\* Separators the pattern [\d,\s]+ admits between two integers.
Separators == {<<",">>, <<",", " ">>, <<" ">>}

\* upstream_status fields: one integer, a chain of two, or no integer at all.
StatusFields == Numerals \cup {<<",">>}

\* The chains of k integers, every two joined by one of the separators.
RECURSIVE Chains(_)
Chains(k) ==
    IF k = 1 THEN Numerals
    ELSE {c \o sep \o n : c \in Chains(k - 1), sep \in Separators, n \in Numerals}

ParseFields ==
    UNION {Chains(k) : k \in 1..MaxChain}
    \cup {<<",">>, S500 \o <<",">>, <<" ">> \o S200,
          S500 \o <<",", " ">> \o S502 \o <<",", " ">> \o S200}

AllFields == StatusFields \cup ParseFields

\* The statuses parsed from each field, tabulated.
Statuses == [f \in AllFields |-> ParseStatuses(f)]

Sentinel == "-"
Pools == {"blue", "green", Sentinel}
Releases == {"v1", Sentinel}

\* A line the pattern matches, by its four named groups.
MatchedLines ==
    [matched : {TRUE}, pool : Pools, release : Releases,
     upstream_status : StatusFields, upstream_addr : {"10.0.0.1:80"}]

\* A line the pattern does not match.
NoMatch ==
    [matched |-> FALSE, pool |-> "", release |-> "", upstream_status |-> <<>>,
     upstream_addr |-> ""]

Lines == MatchedLines \cup {NoMatch}

\* What requests.post does: return a response, or raise.
Responses ==
    {[raised |-> FALSE, status_code |-> 200],
     [raised |-> FALSE, status_code |-> 500],
     [raised |-> TRUE, status_code |-> 0]}

AlertKinds == {"failover", "error_rate", "recovery"}

Thresholds == {50}
WindowSizes == 1..MaxWindow
Cooldowns == 0..MaxCooldown

\* A watcher that has been running: its window is full.
WarmSizes == {4, 20}
WarmThresholds == {50, 55}

AllSizes == WindowSizes \cup WarmSizes
AllThresholds == Thresholds \cup WarmThresholds

\* current_pool = None
None == "<None>"

\* ------------------------------------------------------------------- state
VARIABLES
    slack_webhook,      \* TRUE iff SLACK_WEBHOOK_URL is non-empty
    error_threshold,    \* ERROR_RATE_THRESHOLD, a percentage
    window_size,        \* WINDOW_SIZE
    cooldown_sec,       \* ALERT_COOLDOWN_SEC
    maintenance_mode,   \* MAINTENANCE_MODE
    current_pool,
    request_window,     \* deque(maxlen = window_size), oldest first
    last_alert_times,   \* dict: alert type -> time of its last delivered alert
    line_count,
    clock,              \* the latest reading of time.time()
    call,               \* history: the method called last
    line,               \* history: the line given to the last process_log_line
    events,             \* history: the send_slack_alert calls of the last call
    accepted,           \* history: upstream_status of every line recorded so far
    rate,               \* history: what the last check_error_rate computed
    fed                 \* history: lines fed in this run

config == <<slack_webhook, error_threshold, window_size, cooldown_sec, maintenance_mode>>
vars == <<slack_webhook, error_threshold, window_size, cooldown_sec, maintenance_mode,
          current_pool, request_window, last_alert_times, line_count, clock,
          call, line, events, accepted, rate, fed>>

NoDict == [k \in {} |-> 0]

NoTime == 0 - 1
NoDetails == [previous_pool |-> "", current_pool |-> "", release |-> "", error_count |-> 0 - 1]

\* ------------------------------------------------------- send_slack_alert
\* Mutant: the check of the webhook is missing.
WebhookMissing_Unchecked == FALSE

\* if not self.slack_webhook
WebhookMissing == ~slack_webhook

\* Mutant: the maintenance gate without the exemption of 'recovery'.
MaintenanceSuppressed_NoExemption(alert_type) == maintenance_mode

\* if self.maintenance_mode and alert_type != 'recovery'
MaintenanceSuppressed(alert_type) == maintenance_mode /\ alert_type # "recovery"

\* Mutant: one cooldown shared by every alert type.
LastAlert_AnyKind(times, alert_type) ==
    IF DOMAIN times = {} THEN 0
    ELSE CHOOSE t \in {times[k] : k \in DOMAIN times} :
             \A k \in DOMAIN times : times[k] <= t

\* self.last_alert_times.get(alert_type, 0)
LastAlert(times, alert_type) ==
    IF alert_type \in DOMAIN times THEN times[alert_type] ELSE 0

\* Mutant: the cooldown comparison reversed.
CooldownActive_Reversed(times, alert_type, now) ==
    now - LastAlert(times, alert_type) > cooldown_sec

\* if now - last_alert < self.cooldown_sec
CooldownActive(times, alert_type, now) ==
    now - LastAlert(times, alert_type) < cooldown_sec

\* Mutant: any response counts as a delivery, whatever its status code.
DeliverySucceeded_AnyStatus(resp) == ~resp.raised

\* requests.post returned and response.status_code == 200; an exception raised
\* by requests.post is caught by the except clause.
DeliverySucceeded(resp) == ~resp.raised /\ resp.status_code = 200

\* self.last_alert_times[alert_type] = now
RecordAlert(times, alert_type, now) ==
    [k \in DOMAIN times \cup {alert_type} |-> IF k = alert_type THEN now ELSE times[k]]

\* requests.post was not called.
NoResponse == [raised |-> FALSE, status_code |-> 0]

\* The record of one call: where it ended ("no_webhook", "maintenance",
\* "cooldown", or "posted": requests.post was called), the reading of
\* time.time() and what requests.post did.
Event(alert_type, details, gate, now, resp) ==
    [kind |-> alert_type, details |-> details, gate |-> gate, now |-> now, resp |-> resp]

\* Mutant: every call of requests.post starts the cooldown, delivered or not.
SendAt_FailureStartsCooldown(times, alert_type, details, now, resp) ==
    IF CooldownActive(times, alert_type, now)
    THEN [times |-> times, clock |-> now,
          event |-> Event(alert_type, details, "cooldown", now, NoResponse)]
    ELSE [times |-> RecordAlert(times, alert_type, now),
          clock |-> now,
          event |-> Event(alert_type, details, "posted", now, resp)]

\* The call from the cooldown check on, with time.time() reading `now` and
\* requests.post answering `resp`.
SendAt(times, alert_type, details, now, resp) ==
    IF CooldownActive(times, alert_type, now)
    THEN [times |-> times, clock |-> now,
          event |-> Event(alert_type, details, "cooldown", now, NoResponse)]
    ELSE [times |-> IF DeliverySucceeded(resp) THEN RecordAlert(times, alert_type, now)
                    ELSE times,
          clock |-> now,
          event |-> Event(alert_type, details, "posted", now, resp)]

\* Every way one call of send_slack_alert can end, the clock not running backwards.
SendSlackAlert(times, clk, alert_type, details) ==
    IF WebhookMissing
    THEN {[times |-> times, clock |-> clk,
           event |-> Event(alert_type, details, "no_webhook", NoTime, NoResponse)]}
    ELSE IF MaintenanceSuppressed(alert_type)
    THEN {[times |-> times, clock |-> clk,
           event |-> Event(alert_type, details, "maintenance", NoTime, NoResponse)]}
    ELSE {SendAt(times, alert_type, details, now, resp) :
              now \in clk..MaxTime, resp \in Responses}

\* --------------------------------------------------------- check_failover
FailoverDetails(old_pool, pool, release) ==
    [previous_pool |-> old_pool, current_pool |-> pool, release |-> release,
     error_count |-> 0 - 1]

\* Mutant: every observation counts as a change of pool.
PoolChanged_Always(cur, pool) == TRUE

\* if pool != self.current_pool
PoolChanged(cur, pool) == pool # cur

\* Mutant: the new pool is stored only when its alert was delivered.
CheckFailover_StoreOnDelivery(cur, times, clk, pool, release) ==
    IF cur = None
    THEN {[pool |-> pool, times |-> times, clock |-> clk, events |-> <<>>]}
    ELSE IF PoolChanged(cur, pool)
    THEN {[pool |-> IF r.event.gate = "posted" /\ DeliverySucceeded(r.event.resp)
                    THEN pool ELSE cur,
           times |-> r.times, clock |-> r.clock, events |-> <<r.event>>] :
              r \in SendSlackAlert(times, clk, "failover", FailoverDetails(cur, pool, release))}
    ELSE {[pool |-> cur, times |-> times, clock |-> clk, events |-> <<>>]}

CheckFailover(cur, times, clk, pool, release) ==
    IF cur = None
    THEN {[pool |-> pool, times |-> times, clock |-> clk, events |-> <<>>]}
    ELSE IF PoolChanged(cur, pool)
    THEN {[pool |-> pool, times |-> r.times, clock |-> r.clock, events |-> <<r.event>>] :
              r \in SendSlackAlert(times, clk, "failover", FailoverDetails(cur, pool, release))}
    ELSE {[pool |-> cur, times |-> times, clock |-> clk, events |-> <<>>]}

\* ------------------------------------------------------- check_error_rate
\* Mutant: the rate is computed on a window of any length.
WindowTooShort_Never(window) == FALSE

\* if len(self.request_window) < self.window_size: return
WindowTooShort(window) == Len(window) < window_size

\* sum(1 for status in self.request_window if status >= 500)
ErrorCount(window) == Cardinality({i \in DOMAIN window : window[i] >= 500})

\* (error_count / len(self.request_window)) * 100
ErrorRate(error_count, n) == FloatMul100(FloatDiv(error_count, n))

\* if error_rate > self.error_threshold
ExceedsThreshold(error_rate, threshold) == FloatGreaterNat(error_rate, threshold)

ErrorRateDetails(error_count, cur) ==
    [previous_pool |-> "", current_pool |-> IF cur = None THEN "unknown" ELSE cur,
     release |-> "", error_count |-> error_count]

\* ErrorRate(c, n) and ExceedsThreshold(ErrorRate(c, n), t), tabulated over the
\* configurations of the model.
ErrorRates == [n \in AllSizes |-> [c \in 0..n |-> ErrorRate(c, n)]]

RateAlerts ==
    [t \in AllThresholds |->
        [n \in AllSizes |-> [c \in 0..n |-> ExceedsThreshold(ErrorRates[n][c], t)]]]

\* check_error_rate returned before computing a rate.
NoRate == [computed |-> FALSE, error_count |-> 0, n |-> 0, alert |-> FALSE]

CheckErrorRate(window, cur, times, clk) ==
    IF WindowTooShort(window)
    THEN {[times |-> times, clock |-> clk, events |-> <<>>, rate |-> NoRate]}
    ELSE LET error_count == ErrorCount(window)
             alert       == RateAlerts[error_threshold][Len(window)][error_count]
             seen        == [computed |-> TRUE, error_count |-> error_count,
                             n |-> Len(window), alert |-> alert]
         IN  IF alert
             THEN {[times |-> r.times, clock |-> r.clock, events |-> <<r.event>>,
                    rate |-> seen] :
                       r \in SendSlackAlert(times, clk, "error_rate",
                                            ErrorRateDetails(error_count, cur))}
             ELSE {[times |-> times, clock |-> clk, events |-> <<>>, rate |-> seen]}

\* ------------------------------------------------------- process_log_line
\* Mutant: the error rate is checked before the failover.
CheckFailoverThenErrorRate_ErrorRateFirst(window, cur, times, clk, pool, release) ==
    UNION {{[pool |-> fo.pool, times |-> fo.times, clock |-> fo.clock,
             events |-> er.events \o fo.events, rate |-> er.rate] :
                fo \in CheckFailover(cur, er.times, er.clock, pool, release)} :
           er \in CheckErrorRate(window, cur, times, clk)}

\* Mutant: an exception raised by requests.post for the failover alert ends
\* the processing of the line.
CheckFailoverThenErrorRate_AbortOnFailure(window, cur, times, clk, pool, release) ==
    UNION {IF \E i \in DOMAIN fo.events : fo.events[i].resp.raised
           THEN {[pool |-> fo.pool, times |-> fo.times, clock |-> fo.clock,
                  events |-> fo.events, rate |-> NoRate]}
           ELSE {[pool |-> fo.pool, times |-> er.times, clock |-> er.clock,
                  events |-> fo.events \o er.events, rate |-> er.rate] :
                     er \in CheckErrorRate(window, fo.pool, fo.times, fo.clock)} :
           fo \in CheckFailover(cur, times, clk, pool, release)}

\* self.check_failover(pool, release) and then self.check_error_rate(): the
\* second call starts from the pool, the table and the clock the first left.
CheckFailoverThenErrorRate(window, cur, times, clk, pool, release) ==
    UNION {{[pool |-> fo.pool, times |-> er.times, clock |-> er.clock,
             events |-> fo.events \o er.events, rate |-> er.rate] :
                er \in CheckErrorRate(window, fo.pool, fo.times, fo.clock)} :
           fo \in CheckFailover(cur, times, clk, pool, release)}

\* Mutant: a full deque is emptied before the new entry is appended.
DequeAppend_Restart(window, x) ==
    IF Len(window) = window_size THEN <<x>> ELSE Append(window, x)

\* Mutant: a full deque drops its newest entry instead of its oldest.
DequeAppend_DropNewest(window, x) ==
    IF Len(window) = window_size
    THEN Append(SubSeq(window, 1, Len(window) - 1), x)
    ELSE Append(window, x)

\* deque(maxlen = window_size).append(x)
DequeAppend(window, x) ==
    IF Len(window) = window_size THEN Append(Tail(window), x) ELSE Append(window, x)

\* Mutant: only the release is tested for the sentinel.
Unavailable_ReleaseOnly(pool, release) == release = Sentinel

\* Mutant: only the pool is tested for the sentinel.
Unavailable_PoolOnly(pool, release) == pool = Sentinel

\* if pool == '-' or release == '-'
Unavailable(pool, release) == pool = Sentinel \/ release = Sentinel

Rejected(l) == ~l.matched \/ Len(ParseStatuses(l.upstream_status)) = 0

\* The call from the pattern match on (lines 167 to 206).
ProcessLine(l) ==
    /\ call' = "process_log_line"
    /\ line' = l
    /\ UNCHANGED config
    /\ IF ~l.matched
       THEN /\ UNCHANGED <<current_pool, request_window, last_alert_times, clock>>
            /\ events' = <<>>
            /\ rate' = NoRate
       ELSE LET statuses == Statuses[l.upstream_status]
            IN  IF Len(statuses) = 0
                THEN /\ UNCHANGED <<current_pool, request_window, last_alert_times, clock>>
                     /\ events' = <<>>
                     /\ rate' = NoRate
                ELSE LET upstream_status == FinalStatus(statuses)
                         window == DequeAppend(request_window, upstream_status)
                     IN  /\ request_window' = window
                         /\ IF Unavailable(l.pool, l.release)
                            THEN /\ UNCHANGED current_pool
                                 /\ \E er \in CheckErrorRate(window, current_pool,
                                                             last_alert_times, clock) :
                                        /\ last_alert_times' = er.times
                                        /\ clock' = er.clock
                                        /\ events' = er.events
                                        /\ rate' = er.rate
                            ELSE \E r \in CheckFailoverThenErrorRate(
                                            window, current_pool, last_alert_times,
                                            clock, l.pool, l.release) :
                                        /\ current_pool' = r.pool
                                        /\ last_alert_times' = r.times
                                        /\ clock' = r.clock
                                        /\ events' = r.events
                                        /\ rate' = r.rate

\* History: the statuses recorded so far, with the one of line l if it is
\* recorded.
Record(l) ==
    IF ~l.matched \/ Len(Statuses[l.upstream_status]) = 0
    THEN accepted
    ELSE Append(accepted, FinalStatus(Statuses[l.upstream_status]))

process_log_line(l) ==
    /\ fed < MaxLines
    /\ fed' = fed + 1
    /\ line_count' = line_count + 1
    /\ accepted' = Record(l)
    /\ ProcessLine(l)

\* process_log_line in a watcher that runs for ever: line_count, which is
\* read by the periodic prints only, is counted modulo MaxLines, and the
\* history keeps the statuses the window can hold.
process_log_line_running(l) ==
    /\ line_count' = (line_count % MaxLines) + 1
    /\ accepted' = SubSeq(Record(l),
                          (IF Len(Record(l)) > window_size
                           THEN Len(Record(l)) - window_size ELSE 0) + 1,
                          Len(Record(l)))
    /\ UNCHANGED fed
    /\ ProcessLine(l)

\* A direct call of send_slack_alert(alert_type, message, details).
send_slack_alert(alert_type) ==
    /\ call' = "send_slack_alert"
    /\ \E r \in SendSlackAlert(last_alert_times, clock, alert_type, NoDetails) :
           /\ last_alert_times' = r.times
           /\ clock' = r.clock
           /\ events' = <<r.event>>
    /\ rate' = NoRate
    /\ UNCHANGED config
    /\ UNCHANGED <<current_pool, request_window, line_count, line, accepted, fed>>

\* ------------------------------------------------------------ specification
\* LogWatcher.__init__
Init ==
    /\ slack_webhook \in BOOLEAN
    /\ error_threshold \in Thresholds
    /\ window_size \in WindowSizes
    /\ cooldown_sec \in Cooldowns
    /\ maintenance_mode \in BOOLEAN
    /\ current_pool = None
    /\ request_window = <<>>
    /\ last_alert_times = NoDict
    /\ line_count = 0
    /\ clock = 0
    /\ call = "none"
    /\ line = NoMatch
    /\ events = <<>>
    /\ accepted = <<>>
    /\ rate = NoRate
    /\ fed = 0

Next == \E l \in Lines : process_log_line(l)

Spec == Init /\ [][Next]_vars

\* The watcher fed failing lines of both pools while its owner also calls
\* send_slack_alert('recovery') directly.
DirectLines ==
    [matched : {TRUE}, pool : {"blue", "green"}, release : {"v1"},
     upstream_status : Numerals, upstream_addr : {"10.0.0.1:80"}]

NextDirect ==
    \/ \E l \in DirectLines : process_log_line(l)
    \/ send_slack_alert("recovery")

SpecDirect == Init /\ [][NextDirect]_vars

\* The watcher tailing a log that never ends: tail_log hands every line that
\* arrives to process_log_line.
LiveLines ==
    [matched : {TRUE}, pool : {"blue", Sentinel}, release : {"v1"},
     upstream_status : Numerals, upstream_addr : {"10.0.0.1:80"}]
    \cup {NoMatch}

NextLive == \E l \in LiveLines : process_log_line_running(l)

SpecLive == Init /\ [][NextLive]_vars /\ WF_vars(NextLive)

\* A watcher that has been running on one pool: window_size lines were
\* recorded, the newest c of them with a 5xx status.
WarmWindows(n) == {[i \in 1..n |-> IF i <= n - c THEN 200 ELSE 500] : c \in 0..n}

InitWarm ==
    /\ slack_webhook = TRUE
    /\ error_threshold \in WarmThresholds
    /\ window_size \in WarmSizes
    /\ cooldown_sec \in Cooldowns
    /\ maintenance_mode = FALSE
    /\ current_pool = "blue"
    /\ request_window \in WarmWindows(window_size)
    /\ last_alert_times = NoDict
    /\ line_count = window_size
    /\ clock = 0
    /\ call = "none"
    /\ line = NoMatch
    /\ events = <<>>
    /\ accepted = request_window
    /\ rate = NoRate
    /\ fed = 0

WarmLines ==
    [matched : {TRUE}, pool : {"blue", Sentinel}, release : {"v1"},
     upstream_status : Numerals, upstream_addr : {"10.0.0.1:80"}]

NextWarm == \E l \in WarmLines : process_log_line(l)

SpecWarm == InitWarm /\ [][NextWarm]_vars

\* Lines whose upstream_status is one of the chains, fed to a watcher without
\* a webhook.
ParseLines ==
    [matched : {TRUE}, pool : {"blue"}, release : {"v1"},
     upstream_status : ParseFields, upstream_addr : {"10.0.0.1:80"}]

InitParse ==
    /\ Init
    /\ slack_webhook = FALSE
    /\ maintenance_mode = FALSE
    /\ cooldown_sec = 0
    /\ window_size = MaxWindow

NextParse == \E l \in ParseLines : process_log_line(l)

SpecParse == InitParse /\ [][NextParse]_vars

\* ------------------------------------------------------------------ claims
\* The calls of send_slack_alert made by the last call, as a set.
Attempts == {events[i] : i \in DOMAIN events}

\* The call reached the external notifier (requests.post was called).
Posted(e) == e.gate = "posted"

\* The notifier confirmed the delivery.
Delivered(e) == Posted(e) /\ ~e.resp.raised /\ e.resp.status_code = 200

\* The notifier was called and the delivery failed.
Failed(e) == Posted(e) /\ ~Delivered(e)

\* C1: an attempt made less than cooldown_sec after the last confirmed
\* delivery of its kind never reaches the notifier, so two confirmed
\* deliveries of one kind are at least cooldown_sec apart.
C1_CooldownRespected ==
    [][/\ \A i \in DOMAIN events' :
              (Posted(events'[i]) /\ events'[i].kind \in DOMAIN last_alert_times)
                  => events'[i].now - last_alert_times[events'[i].kind] >= cooldown_sec
       /\ \A k \in DOMAIN last_alert_times :
              last_alert_times'[k] # last_alert_times[k]
                  => last_alert_times'[k] - last_alert_times[k] >= cooldown_sec]_vars

\* C1 witness: an attempt suppressed by the cooldown of an earlier delivery.
C1_Witness ==
    \E e \in Attempts :
        /\ e.gate = "cooldown"
        /\ e.kind \in DOMAIN last_alert_times
        /\ e.now - last_alert_times[e.kind] < cooldown_sec

\* C2: last_alert_times changes only by a confirmed delivery, which sets the
\* entry of its kind to the attempt's now; no entry is removed; after a failed
\* delivery the next attempt of that kind reaches the notifier again.
C2_TableOnlyOnSuccess ==
    [][/\ DOMAIN last_alert_times \subseteq DOMAIN last_alert_times'
       /\ \A k \in DOMAIN last_alert_times' :
              IF \E i \in DOMAIN events' : events'[i].kind = k /\ Delivered(events'[i])
              THEN \E i \in DOMAIN events' :
                       /\ events'[i].kind = k
                       /\ Delivered(events'[i])
                       /\ last_alert_times'[k] = events'[i].now
              ELSE k \in DOMAIN last_alert_times /\ last_alert_times'[k] = last_alert_times[k]
       /\ \A e \in Attempts :
              Failed(e) => \A i \in DOMAIN events' :
                               events'[i].kind = e.kind => Posted(events'[i])]_vars

\* C2 witness: a delivery failed, the table has no entry for its kind.
C2_Witness ==
    \E e \in Attempts : Failed(e) /\ e.resp.raised /\ e.kind \notin DOMAIN last_alert_times

\* C3: under maintenance mode no failover or error_rate attempt reaches the
\* notifier; a recovery attempt is never stopped by the maintenance gate and
\* is decided by the cooldown check alone, whatever maintenance_mode is.
C3_MaintenanceGate ==
    [][\A i \in DOMAIN events' :
           LET e == events'[i]
               last == IF e.kind \in DOMAIN last_alert_times
                       THEN last_alert_times[e.kind] ELSE 0
           IN  /\ (maintenance_mode /\ e.kind # "recovery") => ~Posted(e)
               /\ (slack_webhook /\ e.kind = "recovery")
                      => /\ e.gate \in {"cooldown", "posted"}
                         /\ Posted(e) <=> ~(e.now - last < cooldown_sec)]_vars

\* C3 witness: under maintenance mode an error_rate attempt is suppressed
\* after a recovery alert was delivered.
C3_Witness ==
    /\ maintenance_mode
    /\ "recovery" \in DOMAIN last_alert_times
    /\ \E e \in Attempts : e.kind = "error_rate" /\ e.gate = "maintenance"

\* The attempts of one kind among those of the last call.
OfKind(evs, kind) == {i \in DOMAIN evs : evs[i].kind = kind}

\* The last min(Len(seq), n) entries of seq, in order.
LastN(seq, n) ==
    SubSeq(seq, (IF Len(seq) > n THEN Len(seq) - n ELSE 0) + 1, Len(seq))

\* The entries of a window that are 5xx, counted from scratch.
FiveHundreds(window) == Cardinality({i \in DOMAIN window : window[i] >= 500})

\* C4: check_failover emits a failover candidate iff a pool is already
\* stored and the pool passed differs from it; it emits at most one, naming
\* the stored pool and the new one.
C4_FailoverIffChange ==
    [][(call' = "process_log_line" /\ ~Rejected(line')
            /\ line'.pool # Sentinel /\ line'.release # Sentinel)
        => LET fo == OfKind(events', "failover")
           IN  /\ Cardinality(fo) <= 1
               /\ (fo # {}) <=> (current_pool # None /\ line'.pool # current_pool)
               /\ \A i \in fo :
                      /\ events'[i].details.previous_pool = current_pool
                      /\ events'[i].details.current_pool = line'.pool]_vars

\* C4 witness: the third line changes the pool from blue to green and one
\* failover candidate is emitted.
C4_Witness ==
    /\ fed = 3
    /\ Len(accepted) = 3
    /\ current_pool = "green"
    /\ \E e \in Attempts :
           /\ e.kind = "failover"
           /\ e.details.previous_pool = "blue"
           /\ e.details.current_pool = "green"

\* C5: the window is the statuses of the last min(k, window_size) accepted
\* lines in arrival order, and on a full window check_error_rate uses the
\* number of 5xx among them, counted from scratch, over window_size.
C5_WindowIsRecentHistory ==
    /\ request_window = LastN(accepted, window_size)
    /\ (call = "process_log_line" /\ ~Rejected(line))
           => (rate.computed <=> Len(accepted) >= window_size)
    /\ rate.computed
           => /\ rate.n = window_size
              /\ rate.error_count = FiveHundreds(LastN(accepted, window_size))

\* C5 witness: a 5xx status was evicted from a full window.
C5_Witness ==
    /\ Len(accepted) > window_size
    /\ accepted[1] >= 500
    /\ rate.computed
    /\ rate.error_count = 0

\* C6: an error_rate attempt occurs only on a line after which the window
\* holds window_size statuses.
C6_NoAlertOnPartialWindow ==
    call = "process_log_line"
        => (OfKind(events, "error_rate") # {}
                => Len(accepted) >= window_size /\ Len(request_window) = window_size)

\* C6 witness: every status recorded so far is 5xx, the window is not yet
\* full, and no attempt is made.
C6_Witness ==
    /\ call = "process_log_line"
    /\ ~Rejected(line)
    /\ Len(request_window) < window_size
    /\ \A i \in DOMAIN accepted : accepted[i] >= 500
    /\ events = <<>>

\* C7: on every accepted line that leaves the window full, an error_rate
\* candidate is handed to the dispatcher iff the error percentage
\* 100 * (5xx in the window) / window_size is strictly greater than the
\* threshold.
C7_AlertIffAboveThreshold ==
    (call = "process_log_line" /\ ~Rejected(line) /\ Len(request_window) = window_size)
        => ((OfKind(events, "error_rate") # {})
               <=> 100 * FiveHundreds(request_window) > error_threshold * window_size)

\* C8: a line whose pool or release is the sentinel leaves current_pool alone
\* and emits no failover candidate, and its final status is still appended
\* to the window and the error rate still evaluated.
C8_SentinelLine ==
    [][(call' = "process_log_line" /\ ~Rejected(line')
            /\ (line'.pool = Sentinel \/ line'.release = Sentinel))
        => /\ current_pool' = current_pool
           /\ OfKind(events', "failover") = {}
           /\ accepted' = Append(accepted, FinalStatus(ParseStatuses(line'.upstream_status)))
           /\ request_window' = LastN(accepted', window_size)
           /\ rate'.computed <=> Len(request_window') = window_size]_vars

\* C8 witness: a line with a pool and the release "-" is recorded with
\* status 500 while the watcher tracks another pool.
C8_Witness ==
    /\ call = "process_log_line"
    /\ ~Rejected(line)
    /\ line.pool \notin {Sentinel, current_pool}
    /\ line.release = Sentinel
    /\ current_pool # None
    /\ request_window[Len(request_window)] = 500
    /\ rate.computed

\* The digits that end the field s.
RECURSIVE TrailingDigits(_)
TrailingDigits(s) ==
    IF Len(s) > 0 /\ s[Len(s)] \in Digits
    THEN Append(TrailingDigits(SubSeq(s, 1, Len(s) - 1)), s[Len(s)])
    ELSE <<>>

\* The last integer of a field that ends with one.
LastInteger(s) == Int_(TrailingDigits(s))

\* The field is a chain of integers: it starts and ends with a digit, and
\* commas and spaces separate its integers.
IsChain(s) == Len(s) > 0 /\ s[1] \in Digits /\ s[Len(s)] \in Digits

\* A chain whose integers are separated by a comma each (spaces may surround
\* the comma): no two integers have only spaces between them.
IsCommaChain(s) ==
    /\ IsChain(s)
    /\ \A i, j \in 1..Len(s) :
           (/\ i + 1 < j
            /\ s[i] \in Digits
            /\ s[j] \in Digits
            /\ \A k \in (i + 1)..(j - 1) : s[k] \notin Digits)
               => \E k \in (i + 1)..(j - 1) : s[k] = ","

\* The fields fed to the watcher that are chains, and those that are comma
\* chains.
ChainFields == {f \in AllFields : IsChain(f)}
CommaChainFields == {f \in AllFields : IsCommaChain(f)}

\* C9 as claimed: for a chain of integers separated by commas and/or spaces
\* the status recorded for the line is the last integer of the chain.
C9_LastOfAnyChain ==
    [][(call' = "process_log_line" /\ line'.matched /\ line'.upstream_status \in ChainFields)
        => /\ accepted' = Append(accepted, LastInteger(line'.upstream_status))
           /\ request_window' = LastN(accepted', window_size)]_vars

\* C9 amended: for a chain of integers separated by commas, each optionally
\* surrounded by spaces, the status recorded for the line is the last
\* integer of the chain.
C9_LastOfCommaChain ==
    [][(call' = "process_log_line" /\ line'.matched /\ line'.upstream_status \in CommaChainFields)
        => /\ accepted' = Append(accepted, LastInteger(line'.upstream_status))
           /\ request_window' = LastN(accepted', window_size)]_vars

\* C9 witness: upstream_status=500, 502, 200 records 200.
C9_Witness ==
    /\ call = "process_log_line"
    /\ line.upstream_status = S500 \o <<",", " ">> \o S502 \o <<",", " ">> \o S200
    /\ Len(accepted) > 0
    /\ accepted[Len(accepted)] = 200
    /\ request_window[Len(request_window)] = 200

\* C10: without a webhook no attempt reaches the notifier and
\* last_alert_times stays empty, while every accepted line appends its final
\* status to the window and a line with pool and release sets current_pool.
C10_NoWebhook ==
    [][~slack_webhook
        => /\ \A i \in DOMAIN events' : ~Posted(events'[i])
           /\ last_alert_times' = NoDict
           /\ (call' = "process_log_line" /\ ~Rejected(line'))
                  => /\ accepted' = Append(accepted,
                                           FinalStatus(ParseStatuses(line'.upstream_status)))
                     /\ request_window' = LastN(accepted', window_size)
                     /\ current_pool' =
                            IF line'.pool = Sentinel \/ line'.release = Sentinel
                            THEN current_pool ELSE line'.pool
                     /\ rate'.computed <=> Len(request_window') = window_size]_vars

\* C10 witness: without a webhook a failover candidate is suppressed, the new
\* pool is stored and the rate is computed on the full window.
C10_Witness ==
    /\ ~slack_webhook
    /\ rate.computed
    /\ \E e \in Attempts :
           /\ e.kind = "failover"
           /\ e.gate = "no_webhook"
           /\ e.details.current_pool = current_pool

\* The time the cooldown check of an attempt of this kind starts from: the
\* entry of the kind itself, 0 while it has none.
OwnLast(times, kind) == IF kind \in DOMAIN times THEN times[kind] ELSE 0

\* C11: the cooldown is per kind: whether an attempt is stopped by the
\* cooldown check is decided by the entry of its own kind alone, so the
\* delivery of an alert of another kind never suppresses it.
C11_CooldownPerKind ==
    [][\A i \in DOMAIN events' :
           LET e == events'[i]
           IN  e.gate \in {"cooldown", "posted"}
                   => (e.gate = "cooldown"
                          <=> e.now - OwnLast(last_alert_times, e.kind) < cooldown_sec)]_vars

\* C11 witness: on one line the failover alert is delivered and the
\* error_rate alert reaches the notifier less than cooldown_sec later.
C11_Witness ==
    \E i, j \in DOMAIN events :
        /\ events[i].kind = "failover"
        /\ Delivered(events[i])
        /\ events[j].kind = "error_rate"
        /\ Posted(events[j])
        /\ events[j].now - events[i].now < cooldown_sec

\* The missing-webhook diagnostics (the print at line 53) of a sequence of
\* send_slack_alert calls: one for every call that returned at line 54.
MissingWebhookDiagnostics(evs) ==
    Cardinality({i \in DOMAIN evs : evs[i].gate = "no_webhook"})

\* C12: without a webhook the missing-endpoint diagnostic is emitted at most
\* once over any sequence of suppressed attempts: never twice within one
\* call, nor in two calls that follow each other.
C12_DiagnosticOnce ==
    [][MissingWebhookDiagnostics(events) + MissingWebhookDiagnostics(events') <= 1]_vars

\* C13 as claimed: current_pool is None until a line is recorded, and every
\* recorded line with a pool other than "-" makes its pool the current one,
\* nothing else changes it: current_pool is the most recently observed
\* non-sentinel pool.
C13_LastNonSentinelPool ==
    [][/\ fed = 0 => current_pool = None
       /\ current_pool' =
              IF call' = "process_log_line" /\ ~Rejected(line') /\ line'.pool # Sentinel
              THEN line'.pool ELSE current_pool]_vars

\* C13 amended: current_pool is None until a line is recorded, and every
\* recorded line whose pool and release are both other than "-" makes its
\* pool the current one, nothing else changes it: current_pool is the pool
\* of the most recent recorded line that has both a pool and a release.
C13_LastObservedPool ==
    [][/\ fed = 0 => current_pool = None
       /\ current_pool' =
              IF /\ call' = "process_log_line"
                 /\ ~Rejected(line')
                 /\ line'.pool # Sentinel
                 /\ line'.release # Sentinel
              THEN line'.pool ELSE current_pool]_vars

\* C13 witness: after a blue line, a green line without a release was
\* recorded and the current pool is still blue.
C13_Witness ==
    /\ call = "process_log_line"
    /\ Len(accepted) >= 2
    /\ line.pool = "green"
    /\ line.release = Sentinel
    /\ current_pool = "blue"

\* C14: after every call of check_failover the stored pool is the pool
\* passed, whatever became of the failover alert, and a line carrying the
\* pool of an alert that was not delivered makes no new failover attempt.
C14_PoolStoredWhateverOutcome ==
    [][(call' = "process_log_line" /\ ~Rejected(line')
            /\ line'.pool # Sentinel /\ line'.release # Sentinel)
        => /\ current_pool' = line'.pool
           /\ \A e \in Attempts :
                  (e.kind = "failover" /\ ~Delivered(e)
                       /\ line'.pool = e.details.current_pool)
                      => OfKind(events', "failover") = {}]_vars

\* C14 witness: the failover alert of a line was stopped by the cooldown
\* and the pool of the line is stored.
C14_Witness ==
    /\ call = "process_log_line"
    /\ \E e \in Attempts :
           /\ e.kind = "failover"
           /\ e.gate = "cooldown"
           /\ e.details.current_pool = line.pool
    /\ current_pool = line.pool

\* C15: when a line makes a failover attempt and an error_rate attempt, the
\* failover attempt comes first and is over before the error_rate attempt
\* reads the clock, and the error_rate alert is computed on the window that
\* already holds the status of the line, with the pool the line stored.
C15_FailoverBeforeErrorRate ==
    (call = "process_log_line" /\ ~Rejected(line))
        => /\ \A i \in OfKind(events, "failover") : \A j \in OfKind(events, "error_rate") :
                  /\ i < j
                  /\ events[i].now <= events[j].now
           /\ \A j \in OfKind(events, "error_rate") :
                  /\ request_window[Len(request_window)]
                         = FinalStatus(ParseStatuses(line.upstream_status))
                  /\ events[j].details.error_count = FiveHundreds(request_window)
                  /\ events[j].details.current_pool
                         = (IF current_pool = None THEN "unknown" ELSE current_pool)

\* C15 witness: one line had its failover alert delivered and, at a later
\* reading of the clock, made its error_rate attempt.
C15_Witness ==
    /\ call = "process_log_line"
    /\ Len(events) = 2
    /\ events[1].kind = "failover"
    /\ Delivered(events[1])
    /\ events[2].kind = "error_rate"
    /\ events[2].now > events[1].now
    /\ events[2].details.current_pool = line.pool

\* C16: the window never holds more than window_size statuses, and once it
\* holds window_size of them it holds window_size after every further step.
C16_WindowBounded ==
    [][/\ Len(request_window) <= window_size
       /\ Len(request_window') <= window_size
       /\ Len(request_window) = window_size => Len(request_window') = window_size]_vars

\* C16 witness: more lines were recorded than the window holds, and the
\* window of two holds exactly two.
C16_Witness ==
    /\ window_size = 2
    /\ Len(accepted) > window_size
    /\ Len(request_window) = window_size

\* A line that is rejected: the pattern does not match it, or its
\* upstream_status field holds no digit, hence no integer.
NoStatus(l) ==
    ~l.matched \/ \A i \in DOMAIN l.upstream_status : l.upstream_status[i] \notin Digits

\* C17: a rejected line changes the line counter and nothing else: the
\* window, the pool, the table and the configuration stay as they were and
\* no call of send_slack_alert is made.
C17_RejectedLineFrame ==
    [][(call' = "process_log_line" /\ NoStatus(line'))
        => /\ UNCHANGED <<request_window, current_pool, last_alert_times>>
           /\ UNCHANGED config
           /\ events' = <<>>
           /\ line_count' = line_count + 1]_vars

\* C17 witness: a matched line without a status was rejected by a watcher
\* that has a window, a pool and a delivered alert.
C17_Witness ==
    /\ call = "process_log_line"
    /\ line.matched
    /\ NoStatus(line)
    /\ request_window # <<>>
    /\ current_pool # None
    /\ last_alert_times # NoDict
    /\ events = <<>>

\* C18: a line one of whose alerts failed to deliver is processed to its
\* end: its status is in the window, its pool is stored, the error rate is
\* evaluated on the full window and its alert attempted, exactly as the line
\* alone determines; the failure leaves no trace in the window or the pool.
C18_FailureDoesNotStopProcessing ==
    [][(call' = "process_log_line" /\ \E i \in DOMAIN events' : Failed(events'[i]))
        => /\ ~Rejected(line')
           /\ accepted' = Append(accepted, FinalStatus(ParseStatuses(line'.upstream_status)))
           /\ request_window' = LastN(accepted', window_size)
           /\ current_pool' = IF line'.pool = Sentinel \/ line'.release = Sentinel
                              THEN current_pool ELSE line'.pool
           /\ rate'.computed <=> Len(request_window') = window_size
           /\ rate'.computed => rate'.error_count = FiveHundreds(request_window')
           /\ (rate'.computed /\ rate'.alert) <=> OfKind(events', "error_rate") # {}]_vars

\* C18 witness: requests.post raised for the failover alert of a line, and
\* the error_rate attempt of the same line was made after it.
C18_Witness ==
    /\ call = "process_log_line"
    /\ Len(events) = 2
    /\ events[1].kind = "failover"
    /\ Failed(events[1])
    /\ events[1].resp.raised
    /\ events[2].kind = "error_rate"
    /\ rate.computed
    /\ current_pool = line.pool

\* C19: with a webhook and past the maintenance gate, an attempt of a kind
\* that has no entry in last_alert_times reaches the notifier, whatever the
\* clock and cooldown_sec are.
C19_FirstAttemptForwarded ==
    [][\A i \in DOMAIN events' :
           (/\ slack_webhook
            /\ ~(maintenance_mode /\ events'[i].kind # "recovery")
            /\ events'[i].kind \notin DOMAIN last_alert_times)
               => Posted(events'[i])]_vars

\* The last line left the window full with the error rate above the threshold.
HighRateLine == call = "process_log_line" /\ rate.computed /\ rate.alert

\* The error_rate attempt of the last line reached the notifier.
ErrorRatePosted == \E e \in Attempts : e.kind = "error_rate" /\ Posted(e)

\* The error_rate alert of the last line was delivered.
ErrorRateDelivered == \E e \in Attempts : e.kind = "error_rate" /\ Delivered(e)

\* C20: with a webhook and without maintenance mode, if again and again a
\* line leaves the window full with the rate above the threshold, the clock
\* gets past cooldown_sec, and the notifier, if called again and again,
\* succeeds again and again, then an error_rate alert is eventually
\* delivered.
C20_ErrorRateEventuallyDelivered ==
    (/\ slack_webhook
     /\ ~maintenance_mode
     /\ []<>HighRateLine
     /\ <>(clock >= cooldown_sec)
     /\ ([]<>ErrorRatePosted => []<>ErrorRateDelivered))
        => <>ErrorRateDelivered

\* C20 witness: an error_rate alert is delivered by a watcher with a
\* cooldown, after the window had been full before.
C20_Witness ==
    /\ call = "process_log_line"
    /\ cooldown_sec > 0
    /\ ErrorRateDelivered
    /\ line_count > window_size
    /\ "error_rate" \in DOMAIN last_alert_times

====
